---- MODULE Spec2Model ----
(***************************************************************************)
(* RAG-MediBot: the chunker (extract_texts.py), the embedder               *)
(* (embed_texts.py), the indexer (pinecone_upload.py) and the query-time   *)
(* context assembler and answer generator (app.py).                        *)
(*                                                                         *)
(* The pipeline is single-threaded; the stages share nothing but files.    *)
(* Each component has its own state variable (a record) and its own        *)
(* specification; the other components stay idle in it.                    *)
(*                                                                         *)
(* A string is a sequence of characters, each a one-character string; the  *)
(* fixed texts of the fallback answer are single tokens of such a          *)
(* sequence, and a page text of the chunker is its sequence of words.      *)
(***************************************************************************)
EXTENDS Integers, Sequences, FiniteSets, TLC

VARIABLES ctx, gen, emb, chk, stage, upl

vars == <<ctx, gen, emb, chk, stage, upl>>

\* ---------------------------------------------------------------- bounds

MaxPreviewLen == 2
MaxMatches == 2
MaxChars == 4

\* ---------------------------------------------------------------- text

SP == " "
NL == "\n"
Whitespace == {SP, NL}

RECURSIVE SeqsUpTo(_, _)
\* every sequence over S of length <= n
SeqsUpTo(S, n) ==
    IF n = 0 THEN {<<>>}
    ELSE LET shorter == SeqsUpTo(S, n - 1)
         IN  shorter \cup {Append(s, c) : s \in {t \in shorter : Len(t) = n - 1}, c \in S}

\* s[:n] for n >= 0
Prefix(s, n) == SubSeq(s, 1, IF n < Len(s) THEN n ELSE Len(s))

\* s[n:] for n >= 0 (0-based start)
Suffix(s, n) == SubSeq(s, n + 1, Len(s))

RECURSIVE LStrip(_)
LStrip(s) == IF s # <<>> /\ Head(s) \in Whitespace THEN LStrip(Tail(s)) ELSE s

RECURSIVE RStrip(_)
RStrip(s) ==
    IF s # <<>> /\ s[Len(s)] \in Whitespace THEN RStrip(SubSeq(s, 1, Len(s) - 1)) ELSE s

\* str.strip()
Strip(s) == RStrip(LStrip(s))

RECURSIVE Join(_, _)
\* sep.join(parts)
Join(sep, parts) ==
    IF parts = <<>> THEN <<>>
    ELSE IF Len(parts) = 1 THEN parts[1]
    ELSE parts[1] \o sep \o Join(sep, Tail(parts))

BlankLine == <<NL, NL>>

RECURSIVE Split(_, _)
\* s.split(sep), sep non-empty: left to right, non-overlapping
Split(s, sep) ==
    LET hits == {k \in 1..(Len(s) - Len(sep) + 1) : SubSeq(s, k, k + Len(sep) - 1) = sep}
    IN  IF hits = {} THEN <<s>>
        ELSE LET k == CHOOSE h \in hits : \A g \in hits : h <= g
             IN  <<SubSeq(s, 1, k - 1)>> \o Split(Suffix(s, k + Len(sep) - 1), sep)

\* the first non-empty of the candidates, "" when there is none (Python's or-chain)
RECURSIVE FirstTruthy(_)
FirstTruthy(cands) ==
    IF cands = <<>> THEN <<>>
    ELSE IF Len(cands) = 1 \/ cands[1] # <<>> THEN cands[1]
    ELSE FirstTruthy(Tail(cands))

\* ------------------------------------------------- context assembler (app.py)

PreviewChars == {"a", SP}
PreviewStrs == SeqsUpTo(PreviewChars, MaxPreviewLen)
FieldStrs == {<<>>, <<"b">>}

\* a match's metadata: a mapping, an attribute-bearing object, or a plain string
Metas ==
    [kind : {"dict"}, preview : PreviewStrs, text : FieldStrs,
     content : FieldStrs, chunk : FieldStrs, str : {<<>>}]
    \cup
    [kind : {"obj"}, preview : PreviewStrs, text : FieldStrs,
     content : {<<>>}, chunk : {<<>>}, str : {<<>>}]
    \cup
    [kind : {"str"}, preview : {<<>>}, text : {<<>>},
     content : {<<>>}, chunk : {<<>>}, str : PreviewStrs \ {<<>>}]

\* the display text of one match (the body of the loop up to `if not preview`)
PreviewOf(meta) ==
    LET first ==
            IF meta.kind = "dict"
            THEN FirstTruthy(<<meta.preview, meta.text, meta.content, meta.chunk>>)
            ELSE IF meta.kind = "obj"
            THEN FirstTruthy(<<meta.preview, meta.text>>)
            ELSE <<>>
    IN  IF first # <<>> THEN first
        ELSE IF meta.kind = "str" /\ Strip(meta.str) # <<>> THEN Strip(meta.str)
        ELSE <<>>

RECURSIVE SelectParts(_, _, _, _, _)
\* the for loop: parts after the matches from position k on, given parts and total
SelectParts(matches, max_chars, k, parts, total) ==
    IF k > Len(matches) THEN parts
    ELSE LET preview == PreviewOf(matches[k])
         IN  IF preview = <<>> THEN SelectParts(matches, max_chars, k + 1, parts, total)
             ELSE IF total + Len(preview) > max_chars
             THEN Append(parts, Prefix(preview, max_chars - total))
             ELSE SelectParts(matches, max_chars, k + 1, Append(parts, preview),
                              total + Len(preview))

build_context_from_matches(matches, max_chars) ==
    Strip(Join(BlankLine, SelectParts(matches, max_chars, 1, <<>>, 0)))

CtxIdle == [pc |-> "idle", matches |-> <<>>, max_chars |-> 0, parts |-> <<>>, result |-> <<>>]

CtxInit ==
    \E ms \in SeqsUpTo(Metas, MaxMatches), mc \in 0..MaxChars :
        ctx = [pc |-> "call", matches |-> ms, max_chars |-> mc,
               parts |-> <<>>, result |-> <<>>]

BuildContext ==
    /\ ctx.pc = "call"
    /\ ctx' = [ctx EXCEPT !.pc = "done",
                          !.parts = SelectParts(ctx.matches, ctx.max_chars, 1, <<>>, 0),
                          !.result = build_context_from_matches(ctx.matches, ctx.max_chars)]
    /\ UNCHANGED <<gen, emb, chk, stage, upl>>

\* ------------------------------------------------- answer generator (app.py)

MaxContextLen == 4
MaxSegments == 4

\* the fixed texts of the fallback, each a single token of the result
UnavailableMsg == <<"Local LLM unavailable and no retrieved context. Please try again later or consult a medical professional.">>
FallbackHead == <<"The local language model is currently unavailable or returned an error. Below are the most relevant excerpts from the documents:", NL, NL>>
FallbackTail == <<NL, NL, "This is NOT a diagnosis. If you have severe or urgent symptoms (chest pain, difficulty breathing, heavy bleeding), call emergency services immediately. For a full evaluation, consult a qualified healthcare professional.">>

SnippetsKept == 3

\* the test for a blank context reduced to `not context`
FallbackNoStrip(context, note_error) ==
    IF context = <<>>
    THEN UnavailableMsg \o
         (IF note_error # <<>> THEN <<" (error: ">> \o note_error \o <<")">> ELSE <<>>)
    ELSE FallbackHead \o Join(BlankLine, <<Strip(context)>>) \o FallbackTail

\* lines 180-201
ollama_fallback_extractive(context, note_error) ==
    IF context = <<>> \/ Strip(context) = <<>>
    THEN UnavailableMsg \o
         (IF note_error # <<>> THEN <<" (error: ">> \o note_error \o <<")">> ELSE <<>>)
    ELSE LET pieces == Split(context, BlankLine)
             snippets == SelectSeq([k \in 1..Len(pieces) |-> Strip(pieces[k])],
                                   LAMBDA p : p # <<>>)
             top == Prefix(snippets, SnippetsKept)
             summary == Join(BlankLine, top)
         IN  FallbackHead \o summary \o FallbackTail \o
             (IF note_error # <<>> THEN <<NL, NL, "[debug: ">> \o note_error \o <<"]">>
              ELSE <<>>)

ContextChars == {"a", SP, NL}
Segments == {<<"a">>, <<"b">>, <<SP>>}
Contexts ==
    SeqsUpTo(ContextChars, MaxContextLen)
    \cup {Join(BlankLine, segs) : segs \in SeqsUpTo(Segments, MaxSegments) \ {<<>>}}

ErrNotes == {<<>>, <<"E">>}
\* str(j), or the text, of a malformed body
BodyText(shape) ==
    CASE shape = "not_json" -> <<"<", "html", ">">>
      [] shape = "json_non_dict" -> <<"[", "x", "]">>
      [] shape = "dict_no_response" -> <<"{", "error", ":", "x", "}">>
      [] shape = "dict_response_non_str" -> <<"{", "response", ":", "5", "}">>
RespTexts == {<<>>, <<"r">>, <<SP, "r", NL>>}

\* what the HTTP call to the generative model does: the exception requests.post
\* raises, or the status and body of the response; note is str(e) of the
\* exception the outcome leads to, if any
Outcomes ==
    [kind : {"Timeout", "ConnectionError"}, status : {0}, shape : {"none"},
     text : {<<>>}, note : ErrNotes]
    \cup
    [kind : {"http"}, status : {404, 500}, shape : {"none"}, text : {<<>>}, note : ErrNotes]
    \cup
    {[kind |-> "http", status |-> 200, shape |-> sh, text |-> BodyText(sh), note |-> <<"E">>] :
        sh \in {"not_json", "json_non_dict", "dict_no_response", "dict_response_non_str"}}
    \cup
    [kind : {"http"}, status : {200}, shape : {"dict_response_str"},
     text : RespTexts, note : {<<>>}]

\* the try block: the value it returns, or the exception it raises
TryGenerate(o) ==
    IF o.kind # "http" THEN [kind |-> "raise", exc |-> o.kind, value |-> <<>>]
    ELSE IF o.status >= 400 THEN [kind |-> "raise", exc |-> "HTTPError", value |-> <<>>]
    ELSE IF o.shape = "not_json" THEN [kind |-> "raise", exc |-> "ValueError", value |-> <<>>]
    ELSE IF o.shape = "dict_response_str"
    THEN [kind |-> "return", exc |-> "", value |-> Strip(o.text)]
    ELSE IF o.shape = "dict_response_non_str"
    THEN [kind |-> "raise", exc |-> "AttributeError", value |-> <<>>]
    ELSE [kind |-> "return", exc |-> "", value |-> o.text]

\* `except Exception`: every exception of the try block is one
CaughtByExcept(exc) == TRUE

generate_answer_ollama(context, o) ==
    LET r == TryGenerate(o)
    IN  IF r.kind = "return" THEN [raised |-> FALSE, value |-> r.value]
        ELSE IF CaughtByExcept(r.exc)
        THEN [raised |-> FALSE, value |-> ollama_fallback_extractive(context, o.note)]
        ELSE [raised |-> TRUE, value |-> <<>>]

NoOutcome == [kind |-> "none", status |-> 0, shape |-> "none", text |-> <<>>, note |-> <<>>]

GenIdle == [pc |-> "idle", context |-> <<>>, outcome |-> NoOutcome,
            raised |-> FALSE, answer |-> <<>>]

GenInit == \E c \in Contexts : gen = [GenIdle EXCEPT !.pc = "call", !.context = c]

GenerateAnswer ==
    /\ gen.pc = "call"
    /\ \E o \in Outcomes :
         LET r == generate_answer_ollama(gen.context, o)
         IN  gen' = [gen EXCEPT !.pc = IF r.raised THEN "raised" ELSE "returned",
                                !.outcome = o,
                                !.raised = r.raised,
                                !.answer = r.value]
    /\ UNCHANGED <<ctx, emb, chk, stage, upl>>

\* ------------------------------------------------- embedder (embed_texts.py)

MaxRetriesCfg == 4

Vectors == {"v1", "v2"}

\* the body of an HTTP 200 answer of the embedding provider:
\*   data_embedding     {"data": [{"embedding": v, ...}]}
\*   data_no_embedding  {"data": [{...}]}, the first object without "embedding"
\*   data_non_object    {"data": [x]}, x not a mapping
\*   top_embedding      {"embedding": v}, "data" absent, empty or no list
\*   other_dict         a mapping with neither
\*   non_dict           JSON that is no mapping
\*   not_json           no JSON
BodyShapes == {"data_embedding", "data_no_embedding", "data_non_object",
               "top_embedding", "other_dict", "non_dict", "not_json"}

\* what one requests.post does: a network error, or a response
Responses ==
    [kind : {"network"}, status : {0}, shape : {"none"}, vec : {"none"}]
    \cup
    [kind : {"http"}, status : {404, 429, 500}, shape : {"none"}, vec : {"none"}]
    \cup
    [kind : {"http"}, status : {200}, shape : {"data_embedding", "top_embedding"},
     vec : Vectors]
    \cup
    [kind : {"http"}, status : {200}, shape : BodyShapes \ {"data_embedding", "top_embedding"},
     vec : {"none"}]

\* lines 62-74: the value the try block returns for the response, or the
\* exception it raises
TryEmbed(r) ==
    IF r.kind = "network"
    THEN [kind |-> "raise", exc |-> "ConnectionError", status |-> 0, value |-> "none"]
    ELSE IF r.status >= 400
    THEN [kind |-> "raise", exc |-> "HTTPError", status |-> r.status, value |-> "none"]
    ELSE IF r.shape = "not_json"
    THEN [kind |-> "raise", exc |-> "JSONDecodeError", status |-> 0, value |-> "none"]
    ELSE IF r.shape = "non_dict"
    THEN [kind |-> "raise", exc |-> "ValueError", status |-> 0, value |-> "none"]
    ELSE IF r.shape = "data_embedding"
    THEN [kind |-> "return", exc |-> "", status |-> 0, value |-> r.vec]
    ELSE IF r.shape = "data_no_embedding"
    THEN [kind |-> "return", exc |-> "", status |-> 0, value |-> "first_data_object"]
    ELSE IF r.shape = "data_non_object"
    THEN [kind |-> "raise", exc |-> "AttributeError", status |-> 0, value |-> "none"]
    ELSE IF r.shape = "top_embedding"
    THEN [kind |-> "return", exc |-> "", status |-> 0, value |-> r.vec]
    ELSE [kind |-> "raise", exc |-> "ValueError", status |-> 0, value |-> "none"]

RECURSIVE Pow2(_)
Pow2(n) == IF n = 0 THEN 1 ELSE 2 * Pow2(n - 1)

\* line 77: a client error is raised at once
IsClientError(t) == t.exc = "HTTPError" /\ t.status # 0 /\ 400 <= t.status /\ t.status < 500

\* the retry cap off by one
RetriesExhaustedLate(attempt, max_retries) == attempt > max_retries

\* the call given up one attempt early
RetriesExhaustedEarly(attempt, max_retries) == attempt + 1 >= max_retries

\* lines 80 and 86
RetriesExhausted(attempt, max_retries) == attempt >= max_retries

\* lines 82 and 88
Backoff(attempt) == Pow2(attempt)

NoError == [exc |-> "", status |-> 0]

\* sent: the responses to the requests of the call so far, in order;
\* sleeps: the seconds of each time.sleep so far, in order
EmbIdle == [pc |-> "idle", MAX_RETRIES |-> 1, attempt |-> 0,
            sent |-> <<>>, sleeps |-> <<>>, result |-> "none", error |-> NoError]

\* one call of groq_embed_one, MAX_RETRIES configured to 1 or more
EmbInit ==
    \E m \in 1..MaxRetriesCfg : emb = [EmbIdle EXCEPT !.pc = "running", !.MAX_RETRIES = m]

\* lines 59-90: one iteration of `while True`, r what the request meets
EmbedAttempt ==
    /\ emb.pc = "running"
    /\ emb.attempt <= MaxRetriesCfg
    /\ \E r \in Responses :
         LET attempt == emb.attempt + 1
             t == TryEmbed(r)
             base == [emb EXCEPT !.attempt = attempt, !.sent = Append(emb.sent, r)]
         IN  \/ /\ t.kind = "return"
                /\ emb' = [base EXCEPT !.pc = "returned", !.result = t.value]
             \/ /\ t.kind = "raise"
                /\ IsClientError(t)
                /\ emb' = [base EXCEPT !.pc = "raised",
                                       !.error = [exc |-> t.exc, status |-> t.status]]
             \/ /\ t.kind = "raise"
                /\ ~IsClientError(t)
                /\ RetriesExhausted(attempt, emb.MAX_RETRIES)
                /\ emb' = [base EXCEPT !.pc = "raised",
                                       !.error = [exc |-> t.exc, status |-> t.status]]
             \/ /\ t.kind = "raise"
                /\ ~IsClientError(t)
                /\ ~RetriesExhausted(attempt, emb.MAX_RETRIES)
                /\ emb' = [base EXCEPT !.sleeps = Append(emb.sleeps, Backoff(attempt))]
    /\ UNCHANGED <<ctx, gen, chk, stage, upl>>

\* ------------------------------------------------- chunker (extract_texts.py)

MaxChunkSize == 4
MaxWords == 6

CHUNK_SIZE_WORDS == 300
CHUNK_OVERLAP_WORDS == 50
OCR_THRESHOLD_CHARS == 60

\* A page text is its sequence of whitespace-delimited words (text.split()),
\* separated by single blanks; WordLen is the number of characters of a word.
LongWords == <<"L1", "L2", "L3", "L4", "L5", "L6", "L7", "L8">>

WordLen(w) ==
    CASE w = "0123456789" -> 10
      [] w = "feverish" -> 8
      [] w = "patient" -> 7
      [] w = "take" -> 4
      [] w = "two" -> 3
      [] w = "tablets" -> 7
      [] w = "daily" -> 5
      [] w = "rest" -> 4
      [] OTHER -> 30

RECURSIVE SumLen(_)
SumLen(ws) == IF ws = <<>> THEN 0 ELSE WordLen(Head(ws)) + SumLen(Tail(ws))

\* len(text.strip())
StrippedLen(ws) == IF ws = <<>> THEN 0 ELSE SumLen(ws) + Len(ws) - 1

TenChars == <<"0123456789">>
FeverishPatient == <<"feverish", "patient">>
TakeTwoTabletsDaily == <<"take", "two", "tablets", "daily">>
LongPage(n) == SubSeq(LongWords, 1, n)

\* what convert_from_path and image_to_string do for a page: raise, render no
\* image, or recognise a text (which may be blank)
OcrOutcomes ==
    [kind : {"raise", "no_images"}, text : {<<>>}]
    \cup [kind : {"text"}, text : {<<>>, FeverishPatient, <<"rest">>}]

Pages ==
    [native : {<<>>, TenChars, TakeTwoTabletsDaily, LongPage(1)}, ocr : OcrOutcomes]
    \cup [native : {LongPage(n) : n \in 2..MaxWords}, ocr : {[kind |-> "raise", text |-> <<>>]}]

\* documents of one and of two pages
Docs == {<<pg>> : pg \in Pages} \cup {<<pg, qg>> : pg \in Pages, qg \in Pages}

\* chunk_size and overlap with 0 <= overlap < chunk_size, the defaults among them
ChunkConfigs ==
    {<<sz, ov>> \in (1..MaxChunkSize) \X (0..MaxChunkSize) : ov < sz}
    \cup {<<CHUNK_SIZE_WORDS, CHUNK_OVERLAP_WORDS>>}

\* line 26
NeedsOcr(native) == StrippedLen(native) < OCR_THRESHOLD_CHARS

\* the native text kept when OCR raises
PageTextKeptOnError(pg) ==
    IF NeedsOcr(pg.native) /\ pg.ocr.kind = "text" THEN pg.ocr.text ELSE pg.native

\* lines 25-37: the text of a page after the OCR fallback
PageText(pg) ==
    IF NeedsOcr(pg.native)
    THEN CASE pg.ocr.kind = "raise" -> <<>>
           [] pg.ocr.kind = "no_images" -> pg.native
           [] pg.ocr.kind = "text" -> pg.ocr.text
    ELSE pg.native

\* words[i:end], 0-based, end exclusive
Slice(ws, i, end) == SubSeq(ws, i + 1, IF end < Len(ws) THEN end ELSE Len(ws))

\* the window advanced by chunk_size, the overlap forgotten
NextStartNoOverlap(i, chunk_size, overlap) == i + chunk_size

\* line 55
NextStart(i, chunk_size, overlap) == i + (chunk_size - overlap)

ChkIdle == [pc |-> "idle", chunk_size |-> 1, overlap |-> 0, doc |-> <<>>, page_index |-> 0,
            words |-> <<>>, i |-> 0, chunk_id |-> 0, chunks |-> <<>>]

ChkInit ==
    \E cfg \in ChunkConfigs, d \in Docs :
        chk = [ChkIdle EXCEPT !.pc = "page", !.chunk_size = cfg[1], !.overlap = cfg[2],
                              !.doc = d]

\* lines 23-42: the next page, skipped when it has no text
LoadPage ==
    /\ chk.pc = "page"
    /\ chk.page_index < Len(chk.doc)
    /\ LET text == PageText(chk.doc[chk.page_index + 1])
       IN  \/ /\ text = <<>>
              /\ chk' = [chk EXCEPT !.page_index = chk.page_index + 1]
           \/ /\ text # <<>>
              /\ chk' = [chk EXCEPT !.pc = "chunking", !.words = text,
                                    !.i = 0, !.chunk_id = 0]
    /\ UNCHANGED <<ctx, gen, emb, stage, upl>>

\* lines 43-55: one iteration of the while loop
ChunkStep ==
    /\ chk.pc = "chunking"
    /\ chk.i < Len(chk.words)
    /\ LET end == chk.i + chk.chunk_size
           chunk_text == Slice(chk.words, chk.i, end)
           chunk == [page |-> chk.page_index + 1, chunk_id |-> chk.chunk_id,
                     text |-> chunk_text]
       IN  chk' = [chk EXCEPT
                     !.chunks = IF chunk_text # <<>> THEN Append(chk.chunks, chunk)
                                ELSE chk.chunks,
                     !.chunk_id = chk.chunk_id + 1,
                     !.i = NextStart(chk.i, chk.chunk_size, chk.overlap)]
    /\ UNCHANGED <<ctx, gen, emb, stage, upl>>

\* the while loop ends: on to the next page
EndPage ==
    /\ chk.pc = "chunking"
    /\ chk.i >= Len(chk.words)
    /\ chk' = [chk EXCEPT !.pc = "page", !.page_index = chk.page_index + 1]
    /\ UNCHANGED <<ctx, gen, emb, stage, upl>>

\* lines 56-57
CloseDoc ==
    /\ chk.pc = "page"
    /\ chk.page_index = Len(chk.doc)
    /\ chk' = [chk EXCEPT !.pc = "done"]
    /\ UNCHANGED <<ctx, gen, emb, stage, upl>>

\* ------------------------------------------- embedding stage (embed_texts.py main)

MaxChunkLines == 3

\* a line of chunks.jsonl:
\*   ok          a JSON object with "id" and "text"
\*   ok_no_id    a JSON object with "text" and no "id"
\*   no_text     a JSON object without "text"
\*   non_object  JSON that is no object
\*   not_json    no JSON
\*   blank       an empty line
ChunkLineKinds == {"ok", "ok_no_id", "no_text", "non_object", "not_json", "blank"}

\* lines 117-126: the records read, each with the number of its line; a blank
\* line and a line json.loads rejects are skipped
RECURSIVE ReadChunkLines(_, _)
ReadChunkLines(lines, n) ==
    IF n > Len(lines) THEN <<>>
    ELSE IF lines[n] \in {"blank", "not_json"} THEN ReadChunkLines(lines, n + 1)
    ELSE <<[line |-> n, kind |-> lines[n]]>> \o ReadChunkLines(lines, n + 1)

\* line 142: c.get("id") or f"chunk_{i}", i counted from 1
ChunkRecordId(c, i) == IF c.kind = "ok" THEN <<"id", c.line>> ELSE <<"chunk", i>>

PreviousOutput == <<[id |-> <<"previous", 0>>, line |-> 0]>>

StageIdle == [pc |-> "idle", exists |-> FALSE, lines |-> <<>>, chunks |-> <<>>, k |-> 0,
              embed_calls |-> <<>>, out |-> PreviousOutput]

StageInit ==
    \E e \in BOOLEAN, ls \in SeqsUpTo(ChunkLineKinds, MaxChunkLines) :
        /\ (~e => ls = <<>>)
        /\ stage = [StageIdle EXCEPT !.pc = "start", !.exists = e, !.lines = ls]

\* lines 112-140: read chunks.jsonl and open embeddings.jsonl for writing
ReadChunks ==
    /\ stage.pc = "start"
    /\ LET chunks == ReadChunkLines(stage.lines, 1)
       IN  \/ /\ ~stage.exists
              /\ stage' = [stage EXCEPT !.pc = "done"]
           \/ /\ stage.exists
              /\ chunks = <<>>
              /\ stage' = [stage EXCEPT !.pc = "done"]
           \/ /\ stage.exists
              /\ chunks # <<>>
              /\ stage' = [stage EXCEPT !.pc = "embedding", !.chunks = chunks, !.out = <<>>]
    /\ UNCHANGED <<ctx, gen, emb, chk, upl>>

\* lines 141-156: one iteration of the for loop
EmbedChunk ==
    /\ stage.pc = "embedding"
    /\ stage.k < Len(stage.chunks)
    /\ LET i == stage.k + 1
           c == stage.chunks[i]
       IN  \/ /\ c.kind = "non_object"
              /\ stage' = [stage EXCEPT !.pc = "raised"]
           \/ /\ c.kind = "no_text"
              /\ stage' = [stage EXCEPT !.pc = "raised"]
           \/ /\ c.kind \in {"ok", "ok_no_id"}
              /\ \/ stage' = [stage EXCEPT
                                !.pc = "raised",
                                !.embed_calls = Append(stage.embed_calls, c.line)]
                 \/ stage' = [stage EXCEPT
                                !.k = i,
                                !.embed_calls = Append(stage.embed_calls, c.line),
                                !.out = Append(stage.out,
                                               [id |-> ChunkRecordId(c, i), line |-> c.line])]
    /\ UNCHANGED <<ctx, gen, emb, chk, upl>>

\* line 158
FinishEmbedding ==
    /\ stage.pc = "embedding"
    /\ stage.k = Len(stage.chunks)
    /\ stage' = [stage EXCEPT !.pc = "done"]
    /\ UNCHANGED <<ctx, gen, emb, chk, upl>>

\* ------------------------------------------------- indexer (pinecone_upload.py)

MaxFileLines == 3
MaxBatchSize == 2

Dims == {2, 3}

\* index names: INDEX_NAME itself (d = 0) and f"{INDEX_NAME}-d{dim}" (d = dim)
INDEX_NAME == [base |-> "medibot-rag", d |-> 0]
DerivedName(dim) == [base |-> "medibot-rag", d |-> dim]
IndexNames == {INDEX_NAME} \cup {DerivedName(d) : d \in Dims}

\* a line of embeddings.jsonl:
\*   ok        a JSON object with "id", "embedding" (of dim numbers) and "metadata"
\*   no_id     a JSON object with "embedding" and no "id"
\*   not_json  a line json.loads rejects
\*   blank     an empty line
FileLines ==
    [kind : {"ok"}, dim : Dims] \cup [kind : {"no_id"}, dim : {2}]
    \cup [kind : {"not_json", "blank"}, dim : {0}]

\* lines 15-21; dim 0 with raised = TRUE when it raises
RECURSIVE detect_dim(_)
detect_dim(lines) ==
    IF lines = <<>> THEN [raised |-> TRUE, dim |-> 0]
    ELSE IF Head(lines).kind = "blank" THEN detect_dim(Tail(lines))
    ELSE IF Head(lines).kind = "not_json" THEN [raised |-> TRUE, dim |-> 0]
    ELSE [raised |-> FALSE, dim |-> Head(lines).dim]

\* the names of the indexes the service holds
RemoteNames(remote) == {n \in IndexNames : remote[n].dim # 0}

\* lines 23-35: the listing, or [] when both ways of listing raise
get_existing_indexes(remote, listing) ==
    IF listing = "names" THEN RemoteNames(remote) ELSE {}

\* what a describe call of the SDK does
DescribeOutcomes == {"no_attr", "raise", "dict_top", "dict_nested", "dict_no_dim", "object"}

\* lines 37-63; 0 is None. s1 is what pc.describe_index does, s2 what
\* pc.Index(name).describe_index() does, dim the dimension of the index
try_get_index_dimension(s1, s2, dim) ==
    IF s1 = "raise" THEN 0
    ELSE IF s1 \in {"dict_top", "dict_nested"} THEN dim
    ELSE IF s2 \in {"dict_top", "dict_nested"} THEN dim
    ELSE 0

\* the redirect on a dimension mismatch forgotten
ResolveTargetNoRedirect(existing, existing_dim, dim) ==
    IF INDEX_NAME \in existing /\ existing_dim = 0 THEN DerivedName(dim) ELSE INDEX_NAME

\* lines 74-91: the index to upload to
ResolveTarget(existing, existing_dim, dim) ==
    IF INDEX_NAME \in existing
    THEN IF existing_dim # 0
         THEN IF existing_dim # dim THEN DerivedName(dim) ELSE INDEX_NAME
         ELSE DerivedName(dim)
    ELSE INDEX_NAME

\* line 94
NeedsCreate(target_index, existing) == target_index \notin existing

RECURSIVE ReadItems(_, _)
\* lines 108-113: the items read (each the number of its line and its dimension);
\* raised when a line is rejected
ReadItems(lines, n) ==
    IF n > Len(lines) THEN [raised |-> FALSE, items |-> <<>>]
    ELSE IF lines[n].kind = "blank" THEN ReadItems(lines, n + 1)
    ELSE IF lines[n].kind \in {"not_json", "no_id"} THEN [raised |-> TRUE, items |-> <<>>]
    ELSE LET rest == ReadItems(lines, n + 1)
         IN  [raised |-> rest.raised,
              items |-> IF rest.raised THEN <<>>
                        ELSE <<[id |-> n, dim |-> lines[n].dim]>> \o rest.items]

\* the slice one item short
BatchShort(items, i, batch_size) == Slice(items, i, i + batch_size - 1)

\* line 117: items[i:i+BATCH_SIZE]
Batch(items, i, batch_size) == Slice(items, i, i + batch_size)

NoIndex == [dim |-> 0, ids |-> {}]

UplIdle == [pc |-> "idle", BATCH_SIZE |-> 1, file |-> <<>>,
            remote |-> [n \in IndexNames |-> NoIndex], before |-> {},
            dim |-> 0, existing |-> {}, existing_dim |-> 0,
            target_index |-> INDEX_NAME, calls |-> <<>>, items |-> <<>>, i |-> 0]

\* the service before the run: each index absent or present with a dimension
RemoteStates ==
    {r \in [IndexNames -> [dim : {0} \cup Dims, ids : {{}}]] :
        \A d \in Dims : r[DerivedName(d)].dim \in {0, 2, d}}

UplInit ==
    \E b \in 1..MaxBatchSize, f \in SeqsUpTo(FileLines, MaxFileLines), r \in RemoteStates :
        upl = [UplIdle EXCEPT !.pc = "start", !.BATCH_SIZE = b, !.file = f,
                              !.remote = r, !.before = RemoteNames(r)]

\* lines 66-91: detect the dimension, list the indexes, resolve the target
Resolve ==
    /\ upl.pc = "start"
    /\ LET d == detect_dim(upl.file)
       IN  \/ /\ d.raised
              /\ upl' = [upl EXCEPT !.pc = "raised"]
           \/ /\ ~d.raised
              /\ \E listing \in {"names", "fail"}, s1 \in DescribeOutcomes,
                    s2 \in DescribeOutcomes :
                   LET existing == get_existing_indexes(upl.remote, listing)
                       existing_dim ==
                           IF INDEX_NAME \in existing
                           THEN try_get_index_dimension(s1, s2, upl.remote[INDEX_NAME].dim)
                           ELSE 0
                   IN  upl' = [upl EXCEPT
                                 !.pc = "create",
                                 !.dim = d.dim,
                                 !.existing = existing,
                                 !.existing_dim = existing_dim,
                                 !.target_index = ResolveTarget(existing, existing_dim, d.dim)]
    /\ UNCHANGED <<ctx, gen, emb, chk, stage>>

\* lines 94-103: create the target index when the listing does not hold it; the
\* service refuses a name it holds, and the call may fail
CreateIndex ==
    /\ upl.pc = "create"
    /\ NeedsCreate(upl.target_index, upl.existing)
    /\ LET call == [op |-> "create", name |-> upl.target_index, dim |-> upl.dim,
                    ids |-> {}, vectors |-> <<>>]
       IN  \/ upl' = [upl EXCEPT !.pc = "raised", !.calls = Append(upl.calls, call)]
           \/ /\ upl.remote[upl.target_index].dim = 0
              /\ upl' = [upl EXCEPT
                           !.pc = "read",
                           !.calls = Append(upl.calls, call),
                           !.remote[upl.target_index] = [dim |-> upl.dim, ids |-> {}]]
    /\ UNCHANGED <<ctx, gen, emb, chk, stage>>

\* line 94, the listing holds the target index
SkipCreate ==
    /\ upl.pc = "create"
    /\ ~NeedsCreate(upl.target_index, upl.existing)
    /\ upl' = [upl EXCEPT !.pc = "read"]
    /\ UNCHANGED <<ctx, gen, emb, chk, stage>>

\* lines 108-115
ReadEmbeddings ==
    /\ upl.pc = "read"
    /\ LET r == ReadItems(upl.file, 1)
       IN  \/ /\ r.raised
              /\ upl' = [upl EXCEPT !.pc = "raised"]
           \/ /\ ~r.raised
              /\ upl' = [upl EXCEPT !.pc = "upsert", !.items = r.items, !.i = 0]
    /\ UNCHANGED <<ctx, gen, emb, chk, stage>>

\* lines 116-119: one iteration of the for loop; the service refuses vectors of
\* another dimension than the index's, and the call may fail. A call is
\* recorded with the ids of its vectors, in the order of the vectors list
UpsertBatch ==
    /\ upl.pc = "upsert"
    /\ upl.i < Len(upl.items)
    /\ LET batch == Batch(upl.items, upl.i, upl.BATCH_SIZE)
           ids == {batch[k].id : k \in 1..Len(batch)}
           vectors == [k \in 1..Len(batch) |-> batch[k].id]
           call == [op |-> "upsert", name |-> upl.target_index, dim |-> 0,
                    ids |-> ids, vectors |-> vectors]
           index == upl.remote[upl.target_index]
       IN  \/ upl' = [upl EXCEPT !.pc = "raised", !.calls = Append(upl.calls, call)]
           \/ /\ \A k \in 1..Len(batch) : batch[k].dim = index.dim
              /\ upl' = [upl EXCEPT
                           !.calls = Append(upl.calls, call),
                           !.remote[upl.target_index].ids = index.ids \cup ids,
                           !.i = upl.i + upl.BATCH_SIZE]
    /\ UNCHANGED <<ctx, gen, emb, chk, stage>>

\* line 121
FinishUpload ==
    /\ upl.pc = "upsert"
    /\ upl.i >= Len(upl.items)
    /\ upl' = [upl EXCEPT !.pc = "done"]
    /\ UNCHANGED <<ctx, gen, emb, chk, stage>>

\* ---------------------------------------------------------------- specifications

\* the context assembler: one call of build_context_from_matches
InitContext ==
    CtxInit /\ gen = GenIdle /\ emb = EmbIdle /\ chk = ChkIdle /\ stage = StageIdle /\ upl = UplIdle
NextContext == BuildContext
SpecContext == InitContext /\ [][NextContext]_vars

\* the answer generator: one call of generate_answer_ollama
InitGenerate ==
    GenInit /\ ctx = CtxIdle /\ emb = EmbIdle /\ chk = ChkIdle /\ stage = StageIdle /\ upl = UplIdle
NextGenerate == GenerateAnswer
SpecGenerate == InitGenerate /\ [][NextGenerate]_vars

\* the embedder: one call of groq_embed_one
InitEmbedOne ==
    EmbInit /\ ctx = CtxIdle /\ gen = GenIdle /\ chk = ChkIdle /\ stage = StageIdle /\ upl = UplIdle
NextEmbedOne == EmbedAttempt
SpecEmbedOne == InitEmbedOne /\ [][NextEmbedOne]_vars

\* the chunker: one call of extract_chunks_from_pdf_mupdf
InitChunker ==
    ChkInit /\ ctx = CtxIdle /\ gen = GenIdle /\ emb = EmbIdle /\ stage = StageIdle /\ upl = UplIdle
NextChunker == LoadPage \/ ChunkStep \/ EndPage \/ CloseDoc
SpecChunker == InitChunker /\ [][NextChunker]_vars

\* the batch stages: one run of the embedding stage, or one run of the uploader
InitStages ==
    /\ ctx = CtxIdle /\ gen = GenIdle /\ emb = EmbIdle /\ chk = ChkIdle
    /\ \/ StageInit /\ upl = UplIdle
       \/ UplInit /\ stage = StageIdle
NextStages ==
    \/ ReadChunks \/ EmbedChunk \/ FinishEmbedding
    \/ Resolve \/ CreateIndex \/ SkipCreate \/ ReadEmbeddings \/ UpsertBatch \/ FinishUpload
SpecStages == InitStages /\ [][NextStages]_vars

\* ---------------------------------------------------------------- claims

\* C1: the string build_context_from_matches(matches, maxChars) returns has
\* length <= maxChars, the blank-line separators between the previews counted.
ContextWithinBudget == ctx.pc = "done" => Len(ctx.result) <= ctx.max_chars

\* the scenario of C2: HTTP 429, HTTP 429, then HTTP 200 with the vector v1
Http(status) == [kind |-> "http", status |-> status, shape |-> "none", vec |-> "none"]
Scenario429 ==
    <<Http(429), Http(429),
      [kind |-> "http", status |-> 200, shape |-> "data_embedding", vec |-> "v1"]>>
IsPrefixOf(s, t) == Len(s) <= Len(t) /\ s = SubSeq(t, 1, Len(s))

\* C2: with MAX_RETRIES = 3, when the provider answers a call with 429, 429 and
\* then 200 carrying a vector, the call raises no error (it is still going while
\* the provider has answered only a part of the scenario) and returns the vector
\* of the 200 response.
RetriesThrough429 ==
    (emb.MAX_RETRIES = 3 /\ emb.sent # <<>> /\ IsPrefixOf(emb.sent, Scenario429))
        => /\ emb.pc # "raised"
           /\ emb.sent = Scenario429 => (emb.pc = "returned" /\ emb.result = "v1")

Transient == {Http(500), [kind |-> "network", status |-> 0, shape |-> "none", vec |-> "none"]}
CarriesVector(r) ==
    r.kind = "http" /\ r.status = 200 /\ r.shape \in {"data_embedding", "top_embedding"}

\* C2 as amended: with MAX_RETRIES = 3, when the provider answers a call with two
\* transient failures (HTTP 5xx or a network error) and then 200 carrying a
\* vector, the call raises no error and returns the vector of the 200 response;
\* an HTTP 429 answer, as every 4xx, ends the call at once with that error.
RetriesThroughTransient ==
    LET n == Len(emb.sent)
    IN  (emb.MAX_RETRIES = 3 /\ n >= 1) =>
        /\ (n <= 2 /\ \A k \in 1..n : emb.sent[k] \in Transient) => emb.pc = "running"
        /\ (n = 3 /\ emb.sent[1] \in Transient /\ emb.sent[2] \in Transient
                  /\ CarriesVector(emb.sent[3]))
              => (emb.pc = "returned" /\ emb.result = emb.sent[3].vec)
        /\ emb.sent[n] = Http(429) =>
              /\ emb.pc = "raised"
              /\ emb.error = [exc |-> "HTTPError", status |-> 429]
              /\ Len(emb.sleeps) = n - 1

\* HTTP 500, a network error, then 200 with the vector v2: v2 is returned
TransientWitness ==
    /\ emb.MAX_RETRIES = 3
    /\ emb.pc = "returned"
    /\ Len(emb.sent) = 3
    /\ emb.sent[1] = Http(500)
    /\ emb.sent[2].kind = "network"
    /\ emb.sent[3].shape = "top_embedding"
    /\ emb.result = "v2"
    /\ emb.sleeps = <<2, 4>>

Is4xx(r) == r.kind = "http" /\ 400 <= r.status /\ r.status < 500
Failed(r) == TryEmbed(r).kind = "raise"
ErrorOf(r) == [exc |-> TryEmbed(r).exc, status |-> TryEmbed(r).status]

\* C3: a 4xx response ends the call at once with the error, without a wait or a
\* further request; every other failure is retried; the call sends at most
\* MAX_RETRIES requests, waits 2^k seconds after its k-th failed attempt before
\* the next request, and raises the last error once attempt MAX_RETRIES failed.
RetryPolicy ==
    LET n == Len(emb.sent)
    IN  emb.pc # "idle" =>
        /\ n = emb.attempt
        /\ n <= emb.MAX_RETRIES
        /\ \A k \in 1..(n - 1) : Failed(emb.sent[k]) /\ ~Is4xx(emb.sent[k])
        /\ \A k \in 1..Len(emb.sleeps) : emb.sleeps[k] = 2 ^ k
        /\ emb.pc = "running" =>
             /\ n < emb.MAX_RETRIES
             /\ Len(emb.sleeps) = n
             /\ \A k \in 1..n : Failed(emb.sent[k]) /\ ~Is4xx(emb.sent[k])
        /\ emb.pc = "raised" =>
             /\ n >= 1
             /\ Failed(emb.sent[n])
             /\ Is4xx(emb.sent[n]) \/ n = emb.MAX_RETRIES
             /\ Len(emb.sleeps) = n - 1
             /\ emb.error = ErrorOf(emb.sent[n])
        /\ emb.pc = "returned" =>
             /\ n >= 1
             /\ ~Failed(emb.sent[n])
             /\ Len(emb.sleeps) = n - 1

\* two transient failures were waited for 2 s and 4 s, the third ended the call
RetryPolicyWitness ==
    /\ emb.pc = "raised"
    /\ emb.MAX_RETRIES = 3
    /\ Len(emb.sent) = 3
    /\ emb.sleeps = <<2, 4>>
    /\ emb.sent[3].status = 500
    /\ emb.sent[1].kind = "network"

UpsertCalls == {k \in 1..Len(upl.calls) : upl.calls[k].op = "upsert"}
Resolved == upl.pc \notin {"idle", "start"} /\ upl.dim # 0

\* C4: when the target index exists and the run read its dimension D1, and the
\* embeddings have dimension D2 # D1, no call of the run goes to the index named
\* by the target, which stays as it was (no create, upsert or delete); every
\* create and upsert call goes to the index named '<target>-d<D2>'.
MismatchLeavesTargetAlone ==
    (Resolved /\ INDEX_NAME \in upl.existing /\ upl.existing_dim # 0
              /\ upl.existing_dim # upl.dim)
        => /\ \A k \in 1..Len(upl.calls) :
                /\ upl.calls[k].op \in {"create", "upsert"}
                /\ upl.calls[k].name = DerivedName(upl.dim)
                /\ upl.calls[k].name # INDEX_NAME
           /\ upl.remote[INDEX_NAME] = [dim |-> upl.existing_dim, ids |-> {}]
           /\ INDEX_NAME \in upl.before

\* a run that met a target of dimension 2 with embeddings of dimension 3, created
\* the derived index and upserted into it
MismatchWitness ==
    /\ upl.pc = "done"
    /\ upl.existing_dim = 2
    /\ upl.dim = 3
    /\ Len(upl.calls) >= 2
    /\ upl.calls[1].op = "create"
    /\ upl.calls[2].op = "upsert"
    /\ upl.remote[DerivedName(3)].ids # {}

\* the run created the index of call k before it, with the detected dimension
CreatedByRun(k) ==
    \E j \in 1..(k - 1) :
        /\ upl.calls[j].op = "create"
        /\ upl.calls[j].name = upl.calls[k].name
        /\ upl.calls[j].dim = upl.dim

\* the index of call k existed before the run, and the run read its dimension and
\* found it equal to the detected one (the run reads the dimension of INDEX_NAME only)
ExistedWithDimensionRead(k) ==
    /\ upl.calls[k].name \in upl.before
    /\ upl.calls[k].name = INDEX_NAME
    /\ upl.existing_dim # 0
    /\ upl.existing_dim = upl.dim

\* C5: each upsert goes to an index the run created with the detected dimension,
\* or to one that existed and whose dimension the run read and found equal to
\* the detected one; never to a pre-existing index of undetermined dimension.
UpsertOnlyIntoKnownShape ==
    \A k \in UpsertCalls : CreatedByRun(k) \/ ExistedWithDimensionRead(k)

MalformedChunkLine == \E n \in 1..Len(stage.lines) : stage.lines[n] = "not_json"
MalformedEmbeddingLine ==
    \E n \in 1..Len(upl.file) : upl.file[n].kind \in {"not_json", "no_id"}

\* C10: when chunks.jsonl holds a malformed line the embedding stage makes no
\* embedding call and writes no record to embeddings.jsonl; when
\* embeddings.jsonl holds a malformed line the upload stage makes no upsert call.
MalformedInputAborts ==
    /\ MalformedChunkLine =>
         /\ stage.embed_calls = <<>>
         /\ stage.out \in {PreviousOutput, <<>>}
    /\ MalformedEmbeddingLine => UpsertCalls = {}

GenFailed == gen.outcome.kind \in {"Timeout", "ConnectionError"}
             \/ (gen.outcome.kind = "http" /\ gen.outcome.status # 200)
GenMalformed == gen.outcome.kind = "http" /\ gen.outcome.status = 200
                /\ gen.outcome.shape # "dict_response_str"

\* C6: generate_answer_ollama never raises; when the HTTP call fails (timeout,
\* network error, error status) the answer is non-empty whenever the context is
\* non-empty, and is the fixed 'unavailable' message, optionally followed by the
\* error detail, when the context is empty or only whitespace.
FallbackOnFailure ==
    /\ gen.pc # "raised"
    /\ ~gen.raised
    /\ (gen.pc = "returned" /\ GenFailed) =>
         /\ gen.context # <<>> => gen.answer # <<>>
         /\ (\A k \in 1..Len(gen.context) : gen.context[k] \in Whitespace) =>
              \/ gen.answer = UnavailableMsg
              \/ gen.answer = UnavailableMsg \o <<" (error: ">> \o gen.outcome.note \o <<")">>

\* a timed-out call with a context of blanks only answered the fixed message
FallbackWitness ==
    /\ gen.pc = "returned"
    /\ gen.outcome.kind = "Timeout"
    /\ gen.context = <<SP, NL>>
    /\ gen.answer = UnavailableMsg \o <<" (error: ", "E", ")">>

\* C7: on a malformed response (HTTP 200 whose body is no JSON object holding a
\* string under 'response') generate_answer_ollama returns the extractive
\* fallback and never text taken from the malformed body.
MalformedResponseFallsBack ==
    (gen.pc = "returned" /\ GenMalformed) =>
        /\ gen.answer = ollama_fallback_extractive(gen.context, gen.outcome.note)
        /\ gen.answer # gen.outcome.text

Ceil(a, b) == (a + b - 1) \div b
PageChunks == SelectSeq(chk.chunks, LAMBDA c : c.page = chk.page_index + 1)
\* the last (first) n words of a chunk, all of them when it has fewer
LastWords(ws, n) == SubSeq(ws, (IF Len(ws) > n THEN Len(ws) - n ELSE 0) + 1, Len(ws))
FirstWords(ws, n) == SubSeq(ws, 1, IF Len(ws) > n THEN n ELSE Len(ws))

\* the part of C8 that needs no amendment: for 0 <= O < S and a page of N >= 1
\* words the loop runs ceil(N / (S - O)) times (so it terminates) and emits as
\* many chunks, numbered 0, 1, 2, ... in order; chunk k is the words from
\* position k*(S-O) up to k*(S-O)+S or the end of the page, at most S words
ChunksAreWindows ==
    LET N == Len(chk.words)
        S == chk.chunk_size
        step == chk.chunk_size - chk.overlap
        cs == PageChunks
    IN  /\ N >= 1
        /\ chk.i = chk.chunk_id * step
        /\ Len(cs) = chk.chunk_id
        /\ chk.chunk_id <= Ceil(N, step)
        /\ chk.i >= N => Len(cs) = Ceil(N, step)
        /\ chk.i < N => Len(cs) < Ceil(N, step)
        /\ \A k \in 1..Len(cs) :
             /\ cs[k].chunk_id = k - 1
             /\ cs[k].text = Slice(chk.words, (k - 1) * step, (k - 1) * step + S)
             /\ Len(cs[k].text) >= 1
             /\ Len(cs[k].text) <= S

\* C8 as stated: ... and the last O words of each chunk are the first O words of
\* the next chunk, except possibly when the next chunk is the final one.
ChunkingAsStated ==
    chk.pc = "chunking" =>
        /\ ChunksAreWindows
        /\ chk.i >= Len(chk.words) =>
             \A k \in 1..(Len(PageChunks) - 2) :
                 LastWords(PageChunks[k].text, chk.overlap)
                     = FirstWords(PageChunks[k + 1].text, chk.overlap)

\* C8 as amended: ... and the last O words of each chunk are the first O words of
\* the next chunk, except possibly when the next chunk has fewer than O words
\* (it is then a chunk that ends at the end of the page, the final one or not,
\* and the whole of it is the end of the chunk before it).
ChunkingAmended ==
    chk.pc = "chunking" =>
        /\ ChunksAreWindows
        /\ \A k \in 1..(Len(PageChunks) - 1) :
             LET this == PageChunks[k].text
                 next == PageChunks[k + 1].text
             IN  /\ Len(next) >= chk.overlap =>
                       /\ Len(this) >= chk.overlap
                       /\ LastWords(this, chk.overlap) = FirstWords(next, chk.overlap)
                 /\ Len(next) < chk.overlap =>
                       /\ next = LastWords(this, Len(next))
                       /\ next = Slice(chk.words, k * (chk.chunk_size - chk.overlap),
                                       Len(chk.words))

\* a page of 6 words cut with S = 4 and O = 3: 6 chunks, the last two shorter than O
ChunkingWitness ==
    /\ chk.pc = "chunking"
    /\ chk.chunk_size = 4
    /\ chk.overlap = 3
    /\ Len(chk.words) = 6
    /\ chk.i >= Len(chk.words)
    /\ Len(PageChunks) = 6
    /\ Len(PageChunks[5].text) = 2

ScenarioDoc(ocr2) ==
    <<[native |-> TenChars, ocr |-> [kind |-> "text", text |-> FeverishPatient]],
      [native |-> TakeTwoTabletsDaily, ocr |-> ocr2]>>

\* C9: the 2-page document (page 1: 10 extractable characters, OCR text
\* 'feverish patient'; page 2: native text 'take two tablets daily') gives, with
\* the default chunk size, exactly 2 chunks, one per page, each with sequence 0,
\* with these two texts, whatever OCR does on page 2.
ScenarioTwoChunks ==
    (/\ chk.pc = "done"
     /\ chk.chunk_size = CHUNK_SIZE_WORDS
     /\ chk.overlap = CHUNK_OVERLAP_WORDS
     /\ \E ocr2 \in OcrOutcomes : chk.doc = ScenarioDoc(ocr2))
        => chk.chunks = <<[page |-> 1, chunk_id |-> 0, text |-> FeverishPatient],
                          [page |-> 2, chunk_id |-> 0, text |-> TakeTwoTabletsDaily]>>

Page1Chunk == [page |-> 1, chunk_id |-> 0, text |-> FeverishPatient]

\* C9 as amended: with the default chunk size the document gives the chunk of
\* page 1 ('feverish patient', sequence 0) and, OCR running on page 2 as well
\* (its 22 characters are below the threshold of 60), a second chunk (page 2,
\* sequence 0) unless OCR on page 2 fails or returns a blank text: with the
\* text 'take two tablets daily' when OCR renders no image, with the text OCR
\* returns otherwise.
ScenarioAmended ==
    \A ocr2 \in OcrOutcomes :
        (/\ chk.pc = "done"
         /\ chk.chunk_size = CHUNK_SIZE_WORDS
         /\ chk.overlap = CHUNK_OVERLAP_WORDS
         /\ chk.doc = ScenarioDoc(ocr2))
            => chk.chunks =
                 CASE ocr2.kind = "raise" -> <<Page1Chunk>>
                   [] ocr2.kind = "no_images" ->
                        <<Page1Chunk, [page |-> 2, chunk_id |-> 0, text |-> TakeTwoTabletsDaily]>>
                   [] ocr2.kind = "text" /\ ocr2.text = <<>> -> <<Page1Chunk>>
                   [] OTHER -> <<Page1Chunk, [page |-> 2, chunk_id |-> 0, text |-> ocr2.text]>>

\* the scenario run to its end with OCR failing on page 2: one chunk
ScenarioWitness ==
    /\ chk.pc = "done"
    /\ chk.chunk_size = CHUNK_SIZE_WORDS
    /\ chk.overlap = CHUNK_OVERLAP_WORDS
    /\ chk.doc = ScenarioDoc([kind |-> "raise", text |-> <<>>])
    /\ chk.chunks = <<Page1Chunk>>

Is200(r) == r.kind = "http" /\ r.status = 200
ParsingErrors == {"ValueError", "JSONDecodeError", "AttributeError"}

\* C11: for every HTTP 200 body, groq_embed_one returns a vector only when the
\* body has the list-of-objects shape with an 'embedding' entry in its first
\* object or a top-level 'embedding' key; after a body of any other shape
\* (a 'data' list whose first object has no 'embedding' entry included) a call
\* that has ended has raised a parsing error, and the call never returns a
\* value that is not an embedding vector.
OnlyVectorsReturned ==
    LET n == Len(emb.sent)
    IN  /\ emb.pc = "returned" =>
             /\ Is200(emb.sent[n])
             /\ CarriesVector(emb.sent[n])
             /\ emb.result \in Vectors
             /\ emb.result = emb.sent[n].vec
        /\ (n >= 1 /\ Is200(emb.sent[n]) /\ ~CarriesVector(emb.sent[n])
                   /\ emb.pc \in {"returned", "raised"})
              => (emb.pc = "raised" /\ emb.error.exc \in ParsingErrors)

\* the records of the embeddings file, in file order: the numbers of its
\* non-blank lines
FileRecords ==
    LET S == {n \in 1..Len(upl.file) : upl.file[n].kind # "blank"}
    IN  [k \in 1..Cardinality(S) |->
            CHOOSE n \in S : Cardinality({m \in S : m <= n}) = k]
UpsertsSent == SelectSeq(upl.calls, LAMBDA c : c.op = "upsert")
UploadStarted == upl.pc \in {"upsert", "done"} \/ (upl.pc = "raised" /\ UpsertCalls # {})
UpsertFailed == upl.pc = "raised" /\ UpsertCalls # {}
Least(a, b) == IF a < b THEN a ELSE b
RECURSIVE IdsOf(_, _)
IdsOf(calls, m) ==
    IF m = 0 THEN {}
    ELSE IdsOf(calls, m - 1) \cup {calls[m].vectors[k] : k \in 1..Len(calls[m].vectors)}

\* the j-th upsert call carries the j-th run of BATCH_SIZE consecutive records
\* of the file, the last one what is left; the index holds the records of
\* every upsert that succeeded, those before a failed one included
BatchesInFileOrder ==
    UploadStarted =>
        LET recs == FileRecords
            n == Len(recs)
            B == upl.BATCH_SIZE
            sent == UpsertsSent
            m == Len(sent)
            committed == IF UpsertFailed THEN m - 1 ELSE m
        IN  /\ m <= Ceil(n, B)
            /\ \A j \in 1..m :
                  /\ sent[j].name = upl.target_index
                  /\ sent[j].vectors = SubSeq(recs, (j - 1) * B + 1, Least(j * B, n))
            /\ upl.pc = "done" => m = Ceil(n, B)
            /\ upl.pc = "upsert" => upl.i = m * B
            /\ IdsOf(sent, committed) \subseteq upl.remote[upl.target_index].ids

\* a run whose upsert failed makes no further step
FailedUpsertEndsRun == UpsertFailed => upl' = upl

\* C12: the records of the embeddings file are sent in file order as
\* consecutive batches of BATCH_SIZE records, the last one possibly smaller,
\* one upsert call per batch and each record in exactly one batch; when the
\* upsert of batch k fails the run ends with the error, batch k is not sent
\* again, no later batch is sent, and the records of the batches before k are
\* in the index.
BatchedUpload == []BatchesInFileOrder /\ [][FailedUpsertEndsRun]_vars

\* three records in batches of two: the first batch is committed, the upsert
\* of the second, smaller one fails
BatchedUploadWitness ==
    /\ UpsertFailed
    /\ upl.BATCH_SIZE = 2
    /\ Len(FileRecords) = 3
    /\ Len(UpsertsSent) = 2
    /\ Len(UpsertsSent[2].vectors) = 1
    /\ upl.remote[upl.target_index].ids = {FileRecords[1], FileRecords[2]}

====
